---- MODULE Spec2Model ----
(***************************************************************************)
(* Term lists of typst-library (model/terms.rs): the TermItem array cast,  *)
(* the construction of a TermsElem and its show rule, which realizes the   *)
(* list either as an HTML <dl> or as a padded stack of blocks.             *)
(*                                                                         *)
(* Content is modelled structurally: one record per element, with the      *)
(* element's fields.  Spans are diagnostic metadata that do not take part  *)
(* in content equality and are left out.  Lengths keep both of their       *)
(* components (abs in pt, em in hundredths of an em).                      *)
(***************************************************************************)
EXTENDS Integers, Sequences, FiniteSets, TLC

\* Largest number of children of a term list.
MaxItems == 2
\* Largest length of an array handed to the TermItem cast.
MaxArrayLen == 3

(***************************************************************************)
(* Lengths, relative lengths and spacings (typst layout primitives).       *)
(***************************************************************************)
Length(a, e) == [abs |-> a, em |-> e]
Abs(a) == Length(a, 0)
Em(e) == Length(0, e)
Zero == Length(0, 0)

LengthAdd(a, b) == Length(a.abs + b.abs, a.em + b.em)
LengthNeg(a) == Length(0 - a.abs, 0 - a.em)
is_zero(a) == a.abs = 0 /\ a.em = 0

\* Length -> Rel<Length>: the ratio part is zero.
RelOf(len) == [rel |-> 0, abs |-> len]
\* Length -> Spacing: a relative spacing with zero ratio.
SpacingOf(len) == [kind |-> "rel", amount |-> RelOf(len)]

\* Smart<T>
Auto == [smart |-> "auto"]
Custom(x) == [smart |-> "custom", v |-> x]

\* A settable element field: set on the element itself, or left to the styles.
Unset == [set |-> FALSE]
Set(x) == [set |-> TRUE, v |-> x]

(***************************************************************************)
(* Content.                                                                *)
(***************************************************************************)
Text(s) == [elem |-> "text", text |-> s]
SequenceElem(cs) == [elem |-> "sequence", children |-> cs]
Empty == SequenceElem(<<>>)
ParbreakElem == [elem |-> "parbreak"]
Strong(c) == [elem |-> "strong", body |-> c]
HElem(amount, weak) == [elem |-> "h", amount |-> amount, weak |-> weak]
VElem(amount, weak, attach) ==
    [elem |-> "v", amount |-> amount, weak |-> weak, attach |-> attach]
HtmlElem(tag, body) == [elem |-> "html", tag |-> tag, body |-> body]
Block(c) == [kind |-> "block", body |-> c]
StackElem(children, spacing) ==
    [elem |-> "stack", children |-> children, spacing |-> spacing]
PadElem(body, sides) ==
    [elem |-> "pad", left |-> sides.left, top |-> sides.top,
     right |-> sides.right, bottom |-> sides.bottom, body |-> body]
StyledWithin(body, within) == [elem |-> "styled", child |-> body, within |-> within]

\* Content::sequence: nothing for no element, the element itself for one,
\* a sequence element otherwise.
ContentSequence(cs) ==
    IF Len(cs) = 0 THEN Empty
    ELSE IF Len(cs) = 1 THEN cs[1]
    ELSE SequenceElem(cs)

\* Content + Content: sequences are spliced, other content is wrapped.
ContentAdd(lhs, rhs) ==
    IF lhs.elem = "sequence" /\ rhs.elem = "sequence"
      THEN SequenceElem(lhs.children \o rhs.children)
    ELSE IF lhs.elem = "sequence" THEN SequenceElem(Append(lhs.children, rhs))
    ELSE IF rhs.elem = "sequence" THEN SequenceElem(<<lhs>> \o rhs.children)
    ELSE ContentSequence(<<lhs, rhs>>)

\* Dir::start
DirStart(dir) ==
    CASE dir = "ltr" -> "left"
      [] dir = "rtl" -> "right"
      [] dir = "ttb" -> "top"
      [] dir = "btt" -> "bottom"

\* Sides::default() and Sides::with
SidesDefault ==
    [left |-> RelOf(Zero), top |-> RelOf(Zero),
     right |-> RelOf(Zero), bottom |-> RelOf(Zero)]
SidesWith(sides, side, value) == [sides EXCEPT ![side] = value]

(***************************************************************************)
(* Term items and their casts.                                             *)
(***************************************************************************)
TermItem(term, description) == [term |-> term, description |-> description]
PackItem(item) ==
    [elem |-> "item", term |-> item.term, description |-> item.description]

\* Values that can stand in an array.
VStr(s) == [type |-> "str", str |-> s]
VContent(c) == [type |-> "content", content |-> c]
VInt(i) == [type |-> "int", int |-> i]
VNone == [type |-> "none"]

Ok(x) == [ok |-> TRUE, v |-> x]
Err(msg) == [ok |-> FALSE, err |-> msg]

\* Value -> Content
CastToContent(value) ==
    CASE value.type = "content" -> Ok(value.content)
      [] value.type = "str" -> Ok(Text(value.str))
      [] value.type = "none" -> Ok(Empty)
      [] OTHER -> Err("expected content")

\* Option<Value> of Iterator::next at position i of the array.
IterNext(array, i) == IF i <= Len(array) THEN <<array[i]>> ELSE <<>>

\* Fault variant of CastArray: the third iter.next() is not looked at, so
\* longer arrays pass.
CastArrayAtLeastTwo(array) ==
    LET a == IterNext(array, 1)
        b == IterNext(array, 2)
    IN  IF a # <<>> /\ b # <<>>
          THEN LET term == CastToContent(a[1])
                   description == CastToContent(b[1])
               IN  IF ~term.ok THEN Err(term.err)
                   ELSE IF ~description.ok THEN Err(description.err)
                   ELSE Ok(TermItem(term.v, description.v))
          ELSE Err("array must contain exactly two entries")

\* cast! { TermItem, array: Array => ... }
CastArray(array) ==
    LET a == IterNext(array, 1)
        b == IterNext(array, 2)
        c == IterNext(array, 3)
    IN  IF a # <<>> /\ b # <<>> /\ c = <<>>
          THEN LET term == CastToContent(a[1])
                   description == CastToContent(b[1])
               IN  IF ~term.ok THEN Err(term.err)
                   ELSE IF ~description.ok THEN Err(description.err)
                   ELSE Ok(TermItem(term.v, description.v))
          ELSE Err("array must contain exactly two entries")

\* cast! { TermItem, v: Content => v.unpack::<Self>() ... }
CastContent(v) ==
    IF v.elem = "item" THEN Ok(TermItem(v.term, v.description))
    ELSE Err("expected term item or array")

(***************************************************************************)
(* The term list element and its style chain.                              *)
(***************************************************************************)
\* TermsElem::new(children): every settable field is left to the styles.
TermsElemNew(children) ==
    [children |-> children, tight |-> Unset, separator |-> Unset,
     indent |-> Unset, hanging_indent |-> Unset, spacing |-> Unset]

\* The field defaults.
DefaultTight == TRUE
DefaultSeparator == HElem(SpacingOf(Em(60)), TRUE)
DefaultIndent == Zero
DefaultHangingIndent == Em(200)
DefaultSpacing == Auto

\* Field::get(styles): the element's own value when set, else the chain's.
Get(own, inherited) == IF own.set THEN own.v ELSE inherited

is_html(target) == target = "html"

(***************************************************************************)
(* Show for Packed<TermsElem>.                                             *)
(***************************************************************************)
\* Fault variant of tightOf: the style chain wins over the element.
tightOfChain(self, styles) == styles.tight

tightOf(self, styles) == Get(self.tight, styles.tight)

\* Fault variant of HtmlItem: the paragraph break is appended unconditionally.
HtmlItemAlwaysBreak(item, tight) ==
    <<HtmlElem("dt", <<item.term>>),
      HtmlElem("dd", <<ContentAdd(item.description, ParbreakElem)>>)>>

\* The closure of the flat_map: one dt and one dd per item.
HtmlItem(item, tight) ==
    LET description ==
            IF ~tight THEN ContentAdd(item.description, ParbreakElem)
            ELSE item.description
    IN  <<HtmlElem("dt", <<item.term>>), HtmlElem("dd", <<description>>)>>

RECURSIVE HtmlFlatMap(_, _)
HtmlFlatMap(children, tight) ==
    IF children = <<>> THEN <<>>
    ELSE HtmlItem(Head(children), tight) \o HtmlFlatMap(Tail(children), tight)

ShowHtml(self, tight) ==
    HtmlElem("dl", <<ContentSequence(HtmlFlatMap(self.children, tight))>>)

\* Fault variant of gutter: leading and spacing are swapped.
gutterSwapped(self, styles, tight) ==
    LET spacing == Get(self.spacing, styles.spacing)
    IN  IF spacing.smart = "custom" THEN spacing.v
        ELSE IF tight THEN styles.par_spacing
        ELSE styles.par_leading

gutter(self, styles, tight) ==
    LET spacing == Get(self.spacing, styles.spacing)
    IN  IF spacing.smart = "custom" THEN spacing.v
        ELSE IF tight THEN styles.par_leading
        ELSE styles.par_spacing

pad(hanging_indent, indent) == LengthAdd(hanging_indent, indent)

\* Fault variant of unpad: the shift is not negated.
unpadPositive(hanging_indent) ==
    IF ~is_zero(hanging_indent)
      THEN <<HElem(SpacingOf(hanging_indent), FALSE)>>
      ELSE <<>>

\* Option<Content>: empty or one element.
unpad(hanging_indent) ==
    IF ~is_zero(hanging_indent)
      THEN <<HElem(SpacingOf(LengthNeg(hanging_indent)), FALSE)>>
      ELSE <<>>

\* The body of the for loop: the sequence of one child.
ItemSeq(child, hanging_indent, separator, tight) ==
    LET seq0 == unpad(hanging_indent)
        seq1 == Append(seq0, Strong(child.term))
        seq2 == Append(seq1, separator)
        seq3 == Append(seq2, child.description)
        seq4 == IF ~tight THEN Append(seq3, ParbreakElem) ELSE seq3
    IN  Block(ContentSequence(seq4))

\* Fault variant of StackChildren: the blocks come out in reverse order.
RECURSIVE StackChildrenReversed(_, _, _, _)
StackChildrenReversed(children, hanging_indent, separator, tight) ==
    IF children = <<>> THEN <<>>
    ELSE StackChildrenReversed(Tail(children), hanging_indent, separator, tight)
         \o <<ItemSeq(Head(children), hanging_indent, separator, tight)>>

RECURSIVE StackChildren(_, _, _, _)
StackChildren(children, hanging_indent, separator, tight) ==
    IF children = <<>> THEN <<>>
    ELSE <<ItemSeq(Head(children), hanging_indent, separator, tight)>>
         \o StackChildren(Tail(children), hanging_indent, separator, tight)

\* Fault variant of padding: always the left side.
paddingLeft(dir, p) == SidesWith(SidesDefault, "left", RelOf(p))

padding(dir, p) == SidesWith(SidesDefault, DirStart(dir), RelOf(p))

realizedStack(children, g, sides) ==
    StyledWithin(PadElem(StackElem(children, <<SpacingOf(g)>>), sides), TRUE)

\* Fault variant of tightSpacing: falls back to the paragraph spacing.
tightSpacingPar(self, styles) ==
    LET spacing == Get(self.spacing, styles.spacing)
    IN  IF spacing.smart = "custom" THEN spacing.v ELSE styles.par_spacing

\* The spacing of the weak vertical element put before a tight list.
tightSpacing(self, styles) ==
    LET spacing == Get(self.spacing, styles.spacing)
    IN  IF spacing.smart = "custom" THEN spacing.v ELSE styles.par_leading

ShowLayout(self, styles, tight) ==
    LET separator == Get(self.separator, styles.separator)
        indent == Get(self.indent, styles.indent)
        hanging_indent == Get(self.hanging_indent, styles.hanging_indent)
        g == gutter(self, styles, tight)
        p == pad(hanging_indent, indent)
        children == StackChildren(self.children, hanging_indent, separator, tight)
        realized == realizedStack(children, g, padding(styles.dir, p))
    IN  IF tight
          THEN ContentAdd(VElem(SpacingOf(tightSpacing(self, styles)), TRUE, TRUE),
                          realized)
          ELSE realized

\* Fault variant of ShowOp: the HTML branch pads the list like the layout branch.
ShowOpPadHtml(self, styles) ==
    LET tight == tightOf(self, styles)
        p == pad(Get(self.hanging_indent, styles.hanging_indent),
                 Get(self.indent, styles.indent))
    IN  IF is_html(styles.target)
          THEN PadElem(ShowHtml(self, tight), padding(styles.dir, p))
          ELSE ShowLayout(self, styles, tight)

ShowOp(self, styles) ==
    LET tight == tightOf(self, styles)
    IN  IF is_html(styles.target) THEN ShowHtml(self, tight)
        ELSE ShowLayout(self, styles, tight)

\* ListLike::create
create(children, tight) == [TermsElemNew(children) EXCEPT !.tight = Set(tight)]

(***************************************************************************)
(* Inputs.                                                                 *)
(***************************************************************************)
ArrayValues ==
    {VStr("a"), VContent(SequenceElem(<<Text("b"), Text("c")>>)), VInt(1)}

Arrays == UNION {[1..k -> ArrayValues] : k \in 0..MaxArrayLen}

ContentArgs == {PackItem(TermItem(Text("a"), Text("a"))), Text("a")}

\* What the element constructor may set on the element itself.
OwnTight == {Unset, Set(TRUE), Set(FALSE)}
OwnHangingIndent == {Unset, Set(Abs(1))}

StyleContexts ==
    [target : {"paged", "html"},
     tight : BOOLEAN,
     separator : {DefaultSeparator, Text(":")},
     indent : {DefaultIndent, Abs(1)},
     hanging_indent : {Zero, DefaultHangingIndent},
     spacing : {DefaultSpacing, Custom(Zero), Custom(Abs(-1))},
     par_leading : {Em(65)},
     par_spacing : {Em(120)},
     dir : {"ltr", "rtl"}]

\* The contexts of repeated rendering.
FrameContexts ==
    {s \in StyleContexts :
        /\ s.separator = DefaultSeparator
        /\ s.indent = DefaultIndent
        /\ s.spacing = DefaultSpacing
        /\ s.dir = "ltr"}

(***************************************************************************)
(* State.                                                                  *)
(***************************************************************************)
VARIABLES
    pc,      \* "args": casting the arguments; "failed": a cast bailed;
             \* "built": the element exists; "shown": show has returned
    items,   \* the term items cast so far
    arg,     \* the argument of the latest cast
    res,     \* the result of the latest cast
    node,    \* the TermsElem
    origin,  \* how the element was built (by the constructor or by
             \* ListLike::create, with which tight), and the element as built
    out,     \* the content returned by the latest show
    shown,   \* the style chain of the latest show
    first    \* the style chain and the output of the first show, and
             \* whether show has since run under another style chain

vars == <<pc, items, arg, res, node, origin, out, shown, first>>

NoArg == [kind |-> "none"]
NoRes == [none |-> TRUE]
NoNode == [none |-> TRUE]
NoOrigin == [by |-> "none"]
NoContent == [elem |-> "none"]
NoStyles == [none |-> TRUE]
NoRender == [none |-> TRUE]

Init ==
    /\ pc = "args"
    /\ items = <<>>
    /\ arg = NoArg
    /\ res = NoRes
    /\ node = NoNode
    /\ origin = NoOrigin
    /\ out = NoContent
    /\ shown = NoStyles
    /\ first = NoRender

\* The outcome of casting one argument: the item joins the children, or the
\* error aborts the construction.
Cast(a, r) ==
    /\ arg' = a
    /\ res' = r
    /\ IF r.ok
         THEN items' = Append(items, r.v) /\ pc' = pc
         ELSE items' = items /\ pc' = "failed"
    /\ UNCHANGED <<node, origin, out, shown, first>>

CastArrayArg ==
    /\ pc = "args"
    /\ Len(items) < MaxItems
    /\ \E array \in Arrays : Cast([kind |-> "array", v |-> array], CastArray(array))

CastContentArg ==
    /\ pc = "args"
    /\ Len(items) < MaxItems
    /\ \E v \in ContentArgs : Cast([kind |-> "content", v |-> v], CastContent(v))

Built(n, by, t) ==
    /\ node' = n
    /\ origin' = [by |-> by, tight |-> t, node |-> n]
    /\ pc' = "built"
    /\ arg' = NoArg
    /\ res' = NoRes
    /\ UNCHANGED <<items, out, shown, first>>

\* terms(..children, tight: .., hanging-indent: ..)
Construct ==
    /\ pc = "args"
    /\ \E t \in OwnTight, h \in OwnHangingIndent :
          Built([TermsElemNew(items) EXCEPT !.tight = t, !.hanging_indent = h], "new", t)

\* ListLike::create(children, tight)
Create ==
    /\ pc = "args"
    /\ \E t \in BOOLEAN : Built(create(items, t), "create", Set(t))

\* Fault variant of Render: the paragraph break of a wide list is added to
\* the element's own descriptions instead of to clones.
RenderInPlace(styles) ==
    /\ out' = ShowOp(node, styles)
    /\ shown' = styles
    /\ pc' = "shown"
    /\ node' = [node EXCEPT !.children =
                  [i \in 1..Len(node.children) |->
                     IF tightOf(node, styles) THEN node.children[i]
                     ELSE TermItem(node.children[i].term,
                                   ContentAdd(node.children[i].description,
                                              ParbreakElem))]]
    /\ UNCHANGED <<items, arg, res, origin>>

\* show(&self, engine, styles)
Render(styles) ==
    /\ out' = ShowOp(node, styles)
    /\ shown' = styles
    /\ pc' = "shown"
    /\ UNCHANGED <<items, arg, res, node, origin>>

Show ==
    /\ pc = "built"
    /\ \E styles \in StyleContexts : Render(styles)
    /\ UNCHANGED first

\* show called any number of times on the same element.
ShowAgain ==
    /\ pc \in {"built", "shown"}
    /\ \E styles \in FrameContexts :
          /\ Render(styles)
          /\ first' = IF first = NoRender
                        THEN [styles |-> styles, out |-> ShowOp(node, styles),
                              other |-> FALSE]
                        ELSE [first EXCEPT
                                !.other = first.other \/ styles # first.styles]

Next == CastArrayArg \/ CastContentArg \/ Construct \/ Create \/ Show

Spec == Init /\ [][Next]_vars

NextFrame == CastArrayArg \/ CastContentArg \/ Construct \/ Create \/ ShowAgain

SpecFrame == Init /\ [][NextFrame]_vars

(***************************************************************************)
(* Reading a show result.                                                  *)
(***************************************************************************)
Shown == pc = "shown"
Paged == Shown /\ shown.target = "paged"
Html == Shown /\ shown.target = "html"
N == Len(node.children)

\* The values show works with: the element's own when set, else the chain's.
EffTight == IF node.tight.set THEN node.tight.v ELSE shown.tight
EffSeparator == IF node.separator.set THEN node.separator.v ELSE shown.separator
EffIndent == IF node.indent.set THEN node.indent.v ELSE shown.indent
EffHanging ==
    IF node.hanging_indent.set THEN node.hanging_indent.v ELSE shown.hanging_indent
EffSpacing == IF node.spacing.set THEN node.spacing.v ELSE shown.spacing

AsChildren(c) == IF c.elem = "sequence" THEN c.children ELSE <<c>>
EndsWithParbreak(c) ==
    /\ c.elem = "sequence"
    /\ c.children # <<>>
    /\ c.children[Len(c.children)] = ParbreakElem
CountParbreaks(cs) == Cardinality({j \in 1..Len(cs) : cs[j] = ParbreakElem})

\* Layout output: [v +] styled(pad(stack(blocks))).
RealizedOf(c) == IF c.elem = "sequence" THEN c.children[Len(c.children)] ELSE c
PadOf(c) == RealizedOf(c).child
StackOf(c) == PadOf(c).body
BlockSeq(c, i) == AsChildren(StackOf(c).children[i].body)
\* HTML output: dl(sequence(dt, dd, dt, dd, ...)).
DlBody(c) == AsChildren(c.body[1])
DdBody(c, i) == DlBody(c)[2 * i].body[1]

(***************************************************************************)
(* C1.  For a term list with at least one child, show yields one entry per *)
(* item, in the order of the items: in the layout branch the stack holds   *)
(* one block per item, the i-th built from the i-th term and description;  *)
(* in the HTML branch the dl holds, for the i-th item, a dt wrapping its   *)
(* term directly followed by a dd wrapping its description.                *)
(***************************************************************************)
Wraps(body, description) ==
    LET b == AsChildren(body)
        d == AsChildren(description)
    IN  \/ body = description
        \/ Len(b) = Len(d) + 1 /\ SubSeq(b, 1, Len(d)) = d

C1_OneEntryPerItem ==
    (Shown /\ N >= 1) =>
        IF shown.target = "html"
          THEN /\ out.elem = "html" /\ out.tag = "dl"
               /\ Len(DlBody(out)) = 2 * N
               /\ \A i \in 1..N :
                     /\ DlBody(out)[2 * i - 1]
                           = HtmlElem("dt", <<node.children[i].term>>)
                     /\ DlBody(out)[2 * i].elem = "html"
                     /\ DlBody(out)[2 * i].tag = "dd"
                     /\ Wraps(DdBody(out, i), node.children[i].description)
          ELSE /\ StackOf(out).elem = "stack"
               /\ Len(StackOf(out).children) = N
               /\ \A i \in 1..N :
                     /\ StackOf(out).children[i].kind = "block"
                     /\ \E j \in 1..(Len(BlockSeq(out, i)) - 2) :
                           /\ BlockSeq(out, i)[j] = Strong(node.children[i].term)
                           /\ BlockSeq(out, i)[j + 2] = node.children[i].description

C1_Witness ==
    /\ Paged
    /\ N = 2
    /\ node.children[1].term # node.children[2].term
    /\ node.children[1].description # node.children[2].description

(***************************************************************************)
(* C2.  A tight list gets no paragraph break after any description; a wide *)
(* list gets exactly one after every description: as the last element of   *)
(* each block (layout) and appended to the description in each dd (HTML).  *)
(***************************************************************************)
C2_ParbreakIffWide ==
    Shown =>
        \A i \in 1..N :
            LET description == node.children[i].description
            IN  IF shown.target = "html"
                  THEN IF EffTight
                         THEN DdBody(out, i) = description
                         ELSE /\ DdBody(out, i).elem = "sequence"
                              /\ DdBody(out, i).children
                                    = Append(AsChildren(description), ParbreakElem)
                  ELSE LET seq == BlockSeq(out, i)
                       IN  IF EffTight
                             THEN /\ seq[Len(seq)] = description
                                  /\ CountParbreaks(seq) = 0
                             ELSE /\ seq[Len(seq)] = ParbreakElem
                                  /\ seq[Len(seq) - 1] = description
                                  /\ CountParbreaks(seq) = 1

C2_Witness ==
    /\ Html
    /\ ~EffTight
    /\ N = 2
    /\ node.children[1].description.elem = "sequence"
    /\ node.children[2].description.elem = "text"

(***************************************************************************)
(* C3.  The gap of the stack is the spacing when one is set (whatever its  *)
(* value, whatever tight); with spacing auto it is the paragraph leading   *)
(* for a tight list and the paragraph spacing for a wide one.              *)
(***************************************************************************)
C3_Gutter ==
    Paged =>
        StackOf(out).spacing
            = <<SpacingOf(IF EffSpacing # Auto THEN EffSpacing.v
                          ELSE IF EffTight THEN shown.par_leading
                          ELSE shown.par_spacing)>>

C3_Witness ==
    /\ Paged
    /\ EffSpacing = Auto
    /\ ~EffTight
    /\ StackOf(out).spacing = <<SpacingOf(shown.par_spacing)>>

(***************************************************************************)
(* C5.  Casting an array to a TermItem succeeds exactly when the array has *)
(* two entries, each castable to content; the item is then                 *)
(* TermItem::new(first, second).  Any other length fails with "array must  *)
(* contain exactly two entries" and yields no item.                        *)
(***************************************************************************)
Castable(value) == value.type \in {"content", "str", "none"}

C5_ArrayCast ==
    arg.kind = "array" =>
        LET array == arg.v
        IN  /\ res.ok <=> (Len(array) = 2 /\ Castable(array[1]) /\ Castable(array[2]))
            /\ res.ok =>
                  /\ res.v = TermItem(CastToContent(array[1]).v,
                                      CastToContent(array[2]).v)
                  /\ items # <<>>
                  /\ items[Len(items)] = res.v
            /\ Len(array) # 2 =>
                  /\ res = Err("array must contain exactly two entries")
                  /\ pc = "failed"
                  /\ node = NoNode

C5_Witness ==
    /\ arg.kind = "array"
    /\ Len(arg.v) = 2
    /\ arg.v[1].type = "str"
    /\ arg.v[2].type = "content"
    /\ res.ok

(***************************************************************************)
(* C6.  Every block of the layout branch is exactly                        *)
(* [h(-hanging_indent) if hanging_indent is not zero] strong(term)         *)
(* separator description [parbreak if not tight], in this order.           *)
(***************************************************************************)
C6_BlockSequence ==
    Paged =>
        \A i \in 1..N :
            StackOf(out).children[i]
              = Block(SequenceElem(
                    (IF EffHanging # Zero
                       THEN <<HElem(SpacingOf(Length(0 - EffHanging.abs,
                                                     0 - EffHanging.em)), FALSE)>>
                       ELSE <<>>)
                    \o <<Strong(node.children[i].term), EffSeparator,
                         node.children[i].description>>
                    \o (IF EffTight THEN <<>> ELSE <<ParbreakElem>>)))

C6_Witness ==
    /\ Paged
    /\ N >= 1
    /\ EffHanging # Zero
    /\ EffHanging.em = 0
    /\ ~EffTight
    /\ Len(BlockSeq(out, 1)) = 5

(***************************************************************************)
(* C7.  The stack is padded on the start side of the text direction only,  *)
(* by hanging_indent + indent; under rtl that is the physical side         *)
(* opposite to the one under ltr, with the same amount.                    *)
(***************************************************************************)
OtherDir(dir) == IF dir = "ltr" THEN "rtl" ELSE "ltr"

C7_StartPadding ==
    Paged =>
        LET p == PadOf(out)
            amount == RelOf(Length(EffHanging.abs + EffIndent.abs,
                                   EffHanging.em + EffIndent.em))
            start == IF shown.dir = "rtl" THEN "right" ELSE "left"
            q == PadOf(ShowOp(node, [shown EXCEPT !.dir = OtherDir(shown.dir)]))
        IN  /\ p.elem = "pad"
            /\ p.body.elem = "stack"
            /\ p[start] = amount
            /\ \A side \in {"left", "top", "right", "bottom"} \ {start} :
                  p[side] = RelOf(Zero)
            /\ q.left = p.right /\ q.right = p.left
            /\ q.top = p.top /\ q.bottom = p.bottom

C7_Witness ==
    /\ Paged
    /\ shown.dir = "rtl"
    /\ PadOf(out).right # RelOf(Zero)
    /\ PadOf(out).left = RelOf(Zero)

(***************************************************************************)
(* C8.  A tight list in the layout branch is a weak, attachable v placed   *)
(* before the padded stack, whose amount is the spacing, or the paragraph  *)
(* leading when spacing is auto, and so equals the gap of the stack; a     *)
(* wide list is the padded stack alone.                                    *)
(***************************************************************************)
IsPaddedStack(c) ==
    /\ c.elem = "styled"
    /\ c.child.elem = "pad"
    /\ c.child.body.elem = "stack"

C8_TightLeadingGap ==
    Paged =>
        IF EffTight
          THEN /\ out.elem = "sequence"
               /\ Len(out.children) = 2
               /\ out.children[1]
                     = VElem(SpacingOf(IF EffSpacing # Auto THEN EffSpacing.v
                                       ELSE shown.par_leading), TRUE, TRUE)
               /\ <<out.children[1].amount>> = StackOf(out).spacing
               /\ IsPaddedStack(out.children[2])
          ELSE IsPaddedStack(out)

C8_Witness ==
    /\ Paged
    /\ EffTight
    /\ EffSpacing = Auto
    /\ N = 2
    /\ out.children[1].elem = "v"

(***************************************************************************)
(* C9.  A list built by ListLike::create(children, t) is shown as tight =  *)
(* t under every style chain (paragraph breaks, gap fallback, leading v);  *)
(* the chain's tight is used only when the element left tight unset.       *)
(***************************************************************************)
BehavesTight(t) ==
    IF shown.target = "html"
      THEN \A i \in 1..N : EndsWithParbreak(DdBody(out, i)) <=> ~t
      ELSE /\ (out.elem = "sequence") <=> t
           /\ EffSpacing = Auto =>
                 StackOf(out).spacing
                    = <<SpacingOf(IF t THEN shown.par_leading
                                  ELSE shown.par_spacing)>>
           /\ \A i \in 1..N :
                 (BlockSeq(out, i)[Len(BlockSeq(out, i))] = ParbreakElem) <=> ~t

C9_MarkupTightness ==
    Shown =>
        /\ origin.by = "create" => BehavesTight(origin.tight.v)
        /\ origin.tight.set => BehavesTight(origin.tight.v)
        /\ ~origin.tight.set => BehavesTight(shown.tight)

C9_Witness ==
    /\ Paged
    /\ origin.by = "create"
    /\ origin.tight = Set(FALSE)
    /\ shown.tight = TRUE
    /\ N >= 1
    /\ out.elem = "styled"

(***************************************************************************)
(* C10.  However often show runs on an element, and under whichever style  *)
(* chains, the element stays as it was built, and a show under the style   *)
(* chain of the first show returns what the first show returned.           *)
(***************************************************************************)
C10_ShowFrame ==
    Shown =>
        /\ node = origin.node
        /\ first # NoRender
        /\ shown = first.styles => out = first.out

C10_Witness ==
    /\ Shown
    /\ first # NoRender
    /\ first.other
    /\ shown = first.styles
    /\ N >= 1
    /\ ~EffTight

(***************************************************************************)
(* C4.  Under the HTML target the output of show does not depend on        *)
(* indent, hanging_indent or separator: style chains that agree on the     *)
(* target and on tight give the same output for the same element.  In the  *)
(* layout branch, for an element with at least one child, style chains     *)
(* that differ only in those fields give different outputs whenever the    *)
(* values show resolves for them differ.                                   *)
(***************************************************************************)
\* The style chains that differ from s at most in the three fields.
Variants(s) ==
    {s2 \in StyleContexts :
        /\ s2.target = s.target
        /\ s2.tight = s.tight
        /\ s2.spacing = s.spacing
        /\ s2.par_leading = s.par_leading
        /\ s2.par_spacing = s.par_spacing
        /\ s2.dir = s.dir}

\* What show resolves for the three fields under the style chain s.
Resolved(s) ==
    <<IF node.indent.set THEN node.indent.v ELSE s.indent,
      IF node.hanging_indent.set THEN node.hanging_indent.v ELSE s.hanging_indent,
      IF node.separator.set THEN node.separator.v ELSE s.separator>>

HtmlPurity ==
    Html =>
        \A s2 \in StyleContexts :
            (s2.target = shown.target /\ s2.tight = shown.tight)
                => ShowOp(node, s2) = out

C4_MarkupPurity ==
    /\ HtmlPurity
    /\ (Paged /\ N >= 1) =>
          \A s2 \in Variants(shown) :
              Resolved(s2) # Resolved(shown) => ShowOp(node, s2) # out

C4_Witness ==
    /\ Html
    /\ N = 2
    /\ shown.indent # Zero
    /\ shown.hanging_indent # Zero
    /\ shown.separator # DefaultSeparator

\* The claim as first stated: in the layout branch every change of those
\* fields in the style chain changes the output.
C4_AsStated ==
    /\ HtmlPurity
    /\ Paged =>
          \A s2 \in Variants(shown) \ {shown} : ShowOp(node, s2) # out

====
